---- MODULE Spec2Model ----
(***************************************************************************)
(* DeepDigitViz: the deterministic feed-forward engine (SimpleNeuralNet),  *)
(* and the composition of its snapshot with the classifier's probabilities *)
(* (NeuralNetworkViz).                                                     *)
(*                                                                         *)
(* Numbers.  JavaScript numbers are IEEE doubles.  A finite number v is    *)
(* modelled by the integer nearest to v * Scale (fixed point); NaN is a    *)
(* value of its own that every arithmetic operation propagates.  The two   *)
(* places where a double leaves the reals are kept: 1 + exp(-x) rounds to  *)
(* 1 once exp(-x) < 2^-53 (sigmoid returns exactly 1), and exp overflows   *)
(* to Infinity above 709.78 (sigmoid returns exactly 0).  A sigmoid value  *)
(* that is inside (0,1) as a double is inside 1..Scale-1 as a fixed point. *)
(*                                                                         *)
(* Arrays.  A JavaScript array is an object: two names may denote the same *)
(* array.  A layer of a snapshot is a record [ref, val]: ref says which    *)
(* array object the layer is ("fresh": an array nobody else holds), val    *)
(* its elements when it is fresh; Deref gives the elements it has now.     *)
(***************************************************************************)
EXTENDS Integers, Sequences, FiniteSets, TLC

VARIABLES
    args,               \* the layer sizes the client passed to the constructor
    engine,             \* the SimpleNeuralNet instance built from them (its fields)
    twin,               \* a second instance, built later with the same arguments
    call,               \* the client's most recent forwardPropagate call and what it gave
    held,               \* an earlier snapshot the client kept a reference to
    config,             \* the array the client got from getLayerConfig
    inputActivations,   \* NeuralNetworkViz prop
    probabilities,      \* NeuralNetworkViz prop (null or an array)
    activations,        \* NeuralNetworkViz state
    effectPending,      \* a render changed a dependency; the effect has not run yet
    isAnalyzing,        \* AppContent state
    result,             \* AppContent state (null or a RecognitionResult)
    hasContent,         \* DrawingCanvas state
    canvas,             \* what is drawn on the canvas element
    analyses            \* the calls of handleAnalysis that have not finished

vars == <<args, engine, twin, call, held, config,
          inputActivations, probabilities, activations, effectPending,
          isAnalyzing, result, hasContent, canvas, analyses>>

engineVars == <<args, engine, twin, call, held, config>>
vizVars == <<inputActivations, probabilities, activations, effectPending>>
appVars == <<isAnalyzing, result, hasContent, canvas, analyses>>

-----------------------------------------------------------------------------
(* Bounds of the model *)

MaxSize == 2        \* largest layer size a client constructs an engine with

-----------------------------------------------------------------------------
(* Fixed-point arithmetic standing for double arithmetic *)

Scale == 100 * 100

NaN == 0 - 999999999

IsNaN(a) == a = NaN

Max(a, b) == IF a >= b THEN a ELSE b
Min(a, b) == IF a <= b THEN a ELSE b

\* a / b for b > 0, rounded to the nearest integer
Div(a, b) == (2 * a + b) \div (2 * b)

Add(a, b) == IF IsNaN(a) \/ IsNaN(b) THEN NaN ELSE a + b

\* a * b of two fixed-point numbers; split so that the product stays in 32 bits
Mul(a, b) ==
    IF IsNaN(a) \/ IsNaN(b) THEN NaN
    ELSE (a \div Scale) * b + Div((a % Scale) * b, Scale)

\* floor of the square root of n >= 0
RECURSIVE IsqrtBetween(_, _, _)
IsqrtBetween(n, lo, hi) ==
    IF hi - lo <= 1 THEN lo
    ELSE LET mid == (lo + hi) \div 2
         IN IF mid * mid <= n THEN IsqrtBetween(n, mid, hi)
                              ELSE IsqrtBetween(n, lo, mid)

\* Math.sqrt(n) for an integer n >= 1, as a fixed-point number
Sqrt(n) == IsqrtBetween(n * 1000000, 0, 46340) * (Scale \div 1000)

\* Math.sin(seed) for an integer seed >= 0, as a fixed-point number: the seed
\* is reduced modulo 2 pi = 1420/226 (pi = 355/113), folded into
\* [-pi/2, pi/2], and the Taylor series is summed to the x^11 term.
Sin(seed) ==
    LET r  == (seed * 226) % 1420
        y  == IF r <= 355 THEN r ELSE IF r <= 1065 THEN 710 - r ELSE r - 1420
        x  == Div(y * Scale, 226)
        x2 == Div(x * x, Scale)
        h5 == Scale - Div(x2, 110)
        h4 == Scale - Div(Div(x2 * h5, Scale), 72)
        h3 == Scale - Div(Div(x2 * h4, Scale), 42)
        h2 == Scale - Div(Div(x2 * h3, Scale), 20)
        h1 == Scale - Div(Div(x2 * h2, Scale), 6)
    IN Div(x * h1, Scale)

\* exp(-1) as a fixed-point number
RECURSIVE PowInvE(_)
PowInvE(n) == IF n = 0 THEN Scale ELSE Div(PowInvE(n - 1) * 3679, Scale)

\* exp(-t) for a fixed-point t >= 0
ExpNeg(t) ==
    LET n  == t \div Scale
        f  == t % Scale
        g6 == Scale - Div(f, 7)
        g5 == Scale - Div(Div(f * g6, Scale), 6)
        g4 == Scale - Div(Div(f * g5, Scale), 5)
        g3 == Scale - Div(Div(f * g4, Scale), 4)
        g2 == Scale - Div(Div(f * g3, Scale), 3)
        g1 == Scale - Div(Div(f * g2, Scale), 2)
        g0 == Scale - Div(f * g1, Scale)
    IN IF n >= 12 THEN 0 ELSE Div(PowInvE(n) * g0, Scale)

\* Math.exp(x) as a fixed-point number, saturating where the fixed point ends
Exp(x) ==
    IF x <= 0 THEN ExpNeg(0 - x)
    ELSE LET d == ExpNeg(x)
         IN IF d = 0 THEN 1000000000 ELSE Div(Scale * Scale, d)

\* For x above this, exp(-x) < 2^-53 and 1 + exp(-x) is the double 1
OnePlusRoundsAt == 367368
\* For y above this, Math.exp(y) is Infinity
ExpOverflowsAt == 7097827

-----------------------------------------------------------------------------
(* SimpleNeuralNet *)

\* the bias of every node: -0.1
Bias == 0 - (Scale \div 10)

\* (mutant) a seed that also counts the instances built so far
SeedFromCounter(i, j, k) ==
    (i * 1000) + (j * 100) + k + (IF Len(engine.layerSizes) > 0 THEN 1 ELSE 0)

\* the seed of weight [i][j][k] (indices from 0)
Seed(i, j, k) == (i * 1000) + (j * 100) + k

\* one weight: (sin(seed) * 2 - 1) / sqrt(inputSize)
Weight(i, j, k, inputSize) ==
    LET val == Sin(Seed(i, j, k)) * 2 - Scale
    IN IF val >= 0 THEN Div(val * Scale, Sqrt(inputSize))
       ELSE 0 - Div((0 - val) * Scale, Sqrt(inputSize))

\* initializeWeights: the weights and biases of every layer transition
initializeWeights(layerSizes) ==
    [weights |->
        [i \in 1..(Len(layerSizes) - 1) |->
            [j \in 1..Max(0, layerSizes[i]) |->
                [k \in 1..Max(0, layerSizes[i + 1]) |->
                    Weight(i - 1, j - 1, k - 1, layerSizes[i])]]],
     biases |->
        [i \in 1..(Len(layerSizes) - 1) |->
            [b \in 1..Max(0, layerSizes[i + 1]) |-> Bias]]]

\* new SimpleNeuralNet(inputSize, hiddenSizes, outputSize)
SimpleNeuralNet(inputSize, hiddenSizes, outputSize) ==
    LET layerSizes == <<inputSize>> \o hiddenSizes \o <<outputSize>>
        w == initializeWeights(layerSizes)
    IN [layerSizes |-> layerSizes, weights |-> w.weights, biases |-> w.biases]

\* (mutant) a rectifier in the place of the logistic function
sigmoidAsRelu(x) == IF IsNaN(x) THEN NaN ELSE Max(0, x)

\* sigmoid(x) = 1 / (1 + Math.exp(-x))
sigmoid(x) ==
    IF IsNaN(x) THEN NaN
    ELSE IF x > OnePlusRoundsAt THEN Scale
    ELSE IF (0 - x) > ExpOverflowsAt THEN 0
    ELSE Max(1, Min(Scale - 1, Div(Scale * Scale, Scale + Exp(0 - x))))

Fresh(v) == [ref |-> "fresh", val |-> v]

\* layerB[outIdx] and layerW[inIdx][outIdx]; an index past the end reads undefined,
\* and undefined in arithmetic gives NaN
BiasAt(layerB, k) == IF k <= Len(layerB) THEN layerB[k] ELSE NaN
WeightAt(layerW, j, k) == IF k <= Len(layerW[j]) THEN layerW[j][k] ELSE NaN

\* the dot product loop: sum += currentActivations[inIdx] * layerW[inIdx][outIdx]
\* for inIdx in lo..hi, summed by halves (the fixed-point sum does not depend
\* on the order of the additions)
RECURSIVE DotRange(_, _, _, _, _)
DotRange(cur, layerW, k, lo, hi) ==
    IF lo > hi THEN 0
    ELSE IF lo = hi THEN Mul(cur[lo], WeightAt(layerW, lo, k))
    ELSE LET mid == (lo + hi) \div 2
         IN Add(DotRange(cur, layerW, k, lo, mid), DotRange(cur, layerW, k, mid + 1, hi))

\* (mutant) the sum starts from 0 and not from the bias
WeightedSumNoBias(cur, layerW, layerB, k) ==
    DotRange(cur, layerW, k, 1, Len(cur))

\* let sum = layerB[outIdx]; then the dot product over currentActivations
WeightedSum(cur, layerW, layerB, k) ==
    Add(BiasAt(layerB, k), DotRange(cur, layerW, k, 1, Len(cur)))

\* the loop over the layer transitions, from transition i on; layerW[inIdx] is
\* undefined for inIdx past the rows of layerW, and indexing undefined throws
RECURSIVE PropagateFrom(_, _, _, _)
PropagateFrom(net, cur, i, acc) ==
    IF i > Len(net.weights) THEN [outcome |-> "returned", activations |-> acc]
    ELSE LET outputCount == net.layerSizes[i + 1]
             layerW == net.weights[i]
             layerB == net.biases[i]
         IN IF outputCount >= 1 /\ Len(cur) > Len(layerW)
            THEN [outcome |-> "TypeError", activations |-> <<>>]
            ELSE LET next == [k \in 1..Max(0, outputCount) |->
                                sigmoid(WeightedSum(cur, layerW, layerB, k))]
                 IN PropagateFrom(net, next, i + 1, Append(acc, Fresh(next)))

\* forwardPropagate(inputs): layer 0 is a copy of inputs
forwardPropagate(net, inputs) ==
    PropagateFrom(net, inputs, 1, <<Fresh(inputs)>>)

\* (mutant) the layers are computed in the caller's array: currentActivations
\* stays inputs and the last layer's values are written into it
ForwardPropagateEffectInPlace(net, inputs) ==
    LET r == forwardPropagate(net, inputs)
    IN [engine |-> net,
        inputs |-> IF r.outcome = "returned"
                   THEN r.activations[Len(r.activations)].val
                   ELSE <<>>,
        result |-> r]

\* everything a call of forwardPropagate(inputs) leaves behind: the function
\* assigns to no field of this and to no element of inputs
ForwardPropagateEffect(net, inputs) ==
    [engine |-> net, inputs |-> inputs, result |-> forwardPropagate(net, inputs)]

\* getLayerConfig(): return this.layerSizes, the array itself
getLayerConfig(net) == [ref |-> "layerSizes", val |-> net.layerSizes]

\* the singleton: new SimpleNeuralNet(64, [16, 12], 10)
neuralNetEngine == SimpleNeuralNet(64, <<16, 12>>, 10)

-----------------------------------------------------------------------------
(* A client of the class: it builds an instance, builds a second one with  *)
(* the same arguments, calls forwardPropagate and getLayerConfig, and may  *)
(* keep a snapshot it was given.                                           *)

NoEngine == [layerSizes |-> <<>>, weights |-> <<>>, biases |-> <<>>]
IsBuilt(net) == Len(net.layerSizes) > 0

NoArgs == [inputSize |-> 0, hiddenSizes |-> <<>>, outputSize |-> 0]
Topology(a) == <<a.inputSize>> \o a.hiddenSizes \o <<a.outputSize>>

NoCall == [outcome |-> "none", argument |-> <<>>, inputs |-> <<>>, activations |-> <<>>]
NoSnapshot == [kept |-> FALSE, argument |-> <<>>, activations |-> <<>>]
NoConfig == [ref |-> "none", val |-> <<>>]

\* the layer sizes a client passes: the constructor takes any number
MinSize == 0 - 1
Sizes == MinSize..MaxSize
HiddenSizes == {<<>>} \cup {<<h>> : h \in Sizes}

\* the vectors a client passes: every length up to one more than the largest
\* input layer; all zero, rising to 1, or far outside [0, 1]
Far == 800 * Scale
Patterns == {"zeros", "ramp", "far"}
Vector(len, pattern) ==
    [i \in 1..len |->
        CASE pattern = "zeros" -> 0
          [] pattern = "ramp"  -> (i * Scale) \div len
          [] pattern = "far"   -> IF i % 2 = 1 THEN 0 - Far ELSE Far]
TestInputs == {Vector(len, p) : len \in 0..(MaxSize + 1), p \in Patterns}

\* the elements a layer of a snapshot has now: a layer that is the
\* probabilities array has the elements that array has now; val keeps the
\* elements the layer had when the snapshot was handed over
Deref(layer) == IF layer.ref = "probabilities" THEN probabilities.val ELSE layer.val

Values(snapshot) == [i \in 1..Len(snapshot) |-> Deref(snapshot[i])]

Construct(inputSize, hiddenSizes, outputSize) ==
    /\ ~IsBuilt(engine)
    /\ args' = [inputSize |-> inputSize, hiddenSizes |-> hiddenSizes,
                outputSize |-> outputSize]
    /\ engine' = SimpleNeuralNet(inputSize, hiddenSizes, outputSize)
    /\ UNCHANGED <<twin, call, held, config, vizVars, appVars>>

ConstructAgain ==
    /\ IsBuilt(engine)
    /\ ~IsBuilt(twin)
    /\ twin' = SimpleNeuralNet(args.inputSize, args.hiddenSizes, args.outputSize)
    /\ UNCHANGED <<args, engine, call, held, config, vizVars, appVars>>

ForwardPropagate(x) ==
    /\ IsBuilt(engine)
    /\ \E eff \in {ForwardPropagateEffect(engine, x)} :
          /\ engine' = eff.engine
          /\ call' = [outcome |-> eff.result.outcome, argument |-> x,
                      inputs |-> eff.inputs, activations |-> eff.result.activations]
    /\ UNCHANGED <<args, twin, held, config, vizVars, appVars>>

Keep ==
    /\ call.outcome = "returned"
    /\ held' = [kept |-> TRUE, argument |-> call.argument, activations |-> call.activations]
    /\ UNCHANGED <<args, engine, twin, call, config, vizVars, appVars>>

GetLayerConfig ==
    /\ IsBuilt(engine)
    /\ config' = getLayerConfig(engine)
    /\ UNCHANGED <<args, engine, twin, call, held, vizVars, appVars>>

\* the array returned by getLayerConfig is the engine's own: an assignment
\* to an element of it is an assignment to layerSizes
WriteValues == {0, MaxSize + 1}
WriteConfig(i, v) ==
    /\ config.ref = "layerSizes"
    /\ i \in 1..Len(engine.layerSizes)
    /\ engine' = [engine EXCEPT !.layerSizes[i] = v]
    /\ config' = [config EXCEPT !.val[i] = v]
    /\ UNCHANGED <<args, twin, call, held, vizVars, appVars>>

-----------------------------------------------------------------------------
(* NeuralNetworkViz: the props, the activations state, and the effect that *)
(* recomputes it after a render that changed a dependency.                 *)

GridLength == 64        \* inputActivations.length === 64
OutputLength == 10      \* probabilities.length === 10

NullProbabilities == [null |-> TRUE, val |-> <<>>]
Probabilities(v) == [null |-> FALSE, val |-> v]

GRID_SIZE == 8

\* what is on the canvas, and the average brightness (0..255) of the red
\* channel in cell c of the 8x8 grid
Drawings == {"blank", "stroke", "faint"}
CellBrightness(drawing, c) ==
    CASE drawing = "blank"  -> 0
      [] drawing = "stroke" -> IF c % GRID_SIZE \in {4, 5} THEN 255 ELSE 0
      [] drawing = "faint"  -> IF c % GRID_SIZE = 4 THEN 50 ELSE 0

\* getInputGrid(): Math.min(1, avgBrightness / 100) for every cell
getInputGrid(drawing) ==
    [c \in 1..(GRID_SIZE * GRID_SIZE) |->
        Min(Scale, Div(CellBrightness(drawing, c) * Scale, 100))]

\* neuralNetEngine.forwardPropagate(inputActivations).  The engine never
\* changes, so what it returns for the grids of the canvas is computed once
\* and looked up afterwards.
CanvasGrids == {getInputGrid(drawing) : drawing \in Drawings}
CanvasSnapshots == [grid \in CanvasGrids |-> forwardPropagate(neuralNetEngine, grid)]
Propagated(inputs) ==
    IF inputs \in CanvasGrids THEN CanvasSnapshots[inputs]
                              ELSE forwardPropagate(neuralNetEngine, inputs)

\* (mutant) the state the component is mounted with, no layer at all
ZeroStateEmpty(layerSizes) == <<>>

\* layerSizes.map(size => Array(size).fill(0))
ZeroState(layerSizes) ==
    [i \in 1..Len(layerSizes) |-> Fresh([k \in 1..Max(0, layerSizes[i]) |-> 0])]

\* (mutant) the probabilities replace the last layer whatever their length
ComputeNetworkStateUnchecked(inputs, probs) ==
    IF Len(inputs) = GridLength
    THEN LET calculatedActivations == Propagated(inputs).activations
         IN IF ~probs.null
            THEN [calculatedActivations EXCEPT ![Len(calculatedActivations)] =
                        [ref |-> "probabilities", val |-> probs.val]]
            ELSE calculatedActivations
    ELSE ZeroState(neuralNetEngine.layerSizes)

\* (mutant) the probabilities are written over the layer before the last
ComputeNetworkStateWrongLayer(inputs, probs) ==
    IF Len(inputs) = GridLength
    THEN LET calculatedActivations == Propagated(inputs).activations
         IN IF ~probs.null /\ Len(probs.val) = OutputLength
            THEN [calculatedActivations EXCEPT ![Len(calculatedActivations) - 1] =
                        [ref |-> "probabilities", val |-> probs.val]]
            ELSE calculatedActivations
    ELSE ZeroState(neuralNetEngine.layerSizes)

\* the body of the effect: the value passed to setActivations
ComputeNetworkState(inputs, probs) ==
    IF Len(inputs) = GridLength
    THEN LET calculatedActivations == Propagated(inputs).activations
         IN IF ~probs.null /\ Len(probs.val) = OutputLength
            THEN [calculatedActivations EXCEPT ![Len(calculatedActivations)] =
                        [ref |-> "probabilities", val |-> probs.val]]
            ELSE calculatedActivations
    ELSE ZeroState(neuralNetEngine.layerSizes)

\* the input grids and the probabilities a parent passes
Grids == {Vector(len, p) : len \in {0, GridLength - 1, GridLength, GridLength + 1},
                           p \in {"zeros", "ramp"}}
Distribution(len, kind) ==
    [i \in 1..len |->
        CASE kind = "uniform" -> Scale \div 10
          [] kind = "peaked"  -> IF i = 4 THEN (91 * Scale) \div 100 ELSE Scale \div 100]
Overrides ==
    {NullProbabilities} \cup
    {Probabilities(Distribution(len, kind)) :
        len \in {0, OutputLength - 1, OutputLength, OutputLength + 1},
        kind \in {"uniform", "peaked"}}

\* after a render with a new probabilities array, a layer that is the old
\* array is no longer the probabilities prop
Detached(snapshot) ==
    [i \in 1..Len(snapshot) |->
        IF snapshot[i].ref = "probabilities"
        THEN [ref |-> "detached", val |-> Deref(snapshot[i])]
        ELSE snapshot[i]]

\* (mutant) the dependency list without probabilities
DepsChangedInputOnly(grid, probs) == grid # inputActivations

\* [inputActivations, probabilities, layerSizes]: the effect runs after a
\* render in which one of them is another value than in the render before
\* (layerSizes is memoized and never another).  A parent passes another array
\* when the contents are other; an array with the contents of the one before
\* is taken to be the one before.
DepsChanged(grid, probs) == grid # inputActivations \/ probs # probabilities

\* what a render with the props (grid, probs) does to the component; React
\* runs the effects of a render before the next render
Rendered(grid, probs) ==
    /\ ~effectPending
    /\ inputActivations' = grid
    /\ probabilities' = probs
    /\ activations' = IF probs = probabilities THEN activations
                                               ELSE Detached(activations)
    /\ effectPending' = DepsChanged(grid, probs)

\* a render with new props
Render(grid, probs) ==
    /\ Rendered(grid, probs)
    /\ UNCHANGED <<engineVars, appVars>>

\* useEffect(() => {...}, [inputActivations, probabilities, layerSizes])
RecomputeEffect ==
    /\ effectPending
    /\ activations' = ComputeNetworkState(inputActivations, probabilities)
    /\ effectPending' = FALSE
    /\ UNCHANGED <<engineVars, appVars, inputActivations, probabilities>>

\* a holder of the probabilities array, or of the input grid, assigns to its
\* first element; no render follows, since no state was set
WriteProbabilities(v) ==
    /\ ~probabilities.null
    /\ Len(probabilities.val) > 0
    /\ probabilities' = [probabilities EXCEPT !.val[1] = v]
    /\ UNCHANGED <<engineVars, appVars, inputActivations, activations, effectPending>>

WriteInputActivations(v) ==
    /\ Len(inputActivations) > 0
    /\ inputActivations' = [inputActivations EXCEPT ![1] = v]
    /\ UNCHANGED <<engineVars, appVars, probabilities, activations, effectPending>>

-----------------------------------------------------------------------------
(* analyzeDigit, AppContent and DrawingCanvas.  The App passes its inputGrid *)
(* state as the inputActivations prop and result?.probabilities || null as *)
(* the probabilities prop; a state update and the render it causes are one *)
(* step, so inputActivations is also the inputGrid state.                  *)

MaxInFlight == 2        \* calls of handleAnalysis that may be in flight at once

\* a RecognitionResult, or null; the field of is not a field of the object: it
\* records the image the result was computed for
NullResult == [null |-> TRUE, prediction |-> 0, probabilities |-> <<>>, of |-> "none"]
Recognition(prediction, probs) ==
    [null |-> FALSE, prediction |-> prediction, probabilities |-> probs, of |-> "none"]

\* the texts a response of the remote model carries
TextEmpty == ""
TextProse == "Sorry, I cannot read this image."
TextCut == "{\"prediction\": 3, \"probabilities\": [0.01, 0.01,"
TextNull == "null"
TextTen == "{\"prediction\": 3, \"probabilities\": [0.01, 0.01, 0.01, 0.91, 0.01, 0.01, 0.01, 0.01, 0.01, 0.01]}"
TextNine == "{\"prediction\": 0, \"probabilities\": [0.1, 0.1, 0.1, 0.1, 0.1, 0.1, 0.1, 0.1, 0.1]}"
Texts == {TextEmpty, TextProse, TextCut, TextNull, TextTen, TextNine}

\* JSON.parse(text): the value, or a SyntaxError
JSONParse(text) ==
    CASE text = TextEmpty -> [error |-> TRUE, value |-> NullResult]
      [] text = TextProse -> [error |-> TRUE, value |-> NullResult]
      [] text = TextCut   -> [error |-> TRUE, value |-> NullResult]
      [] text = TextNull  -> [error |-> FALSE, value |-> NullResult]
      [] text = TextTen   -> [error |-> FALSE,
                              value |-> Recognition(3, Distribution(10, "peaked"))]
      [] text = TextNine  -> [error |-> FALSE,
                              value |-> Recognition(0, Distribution(9, "uniform"))]

\* what ai.models.generateContent does: it throws, or it returns a response
RemoteOutcomes ==
    {[kind |-> "throws", text |-> TextEmpty]}
        \cup {[kind |-> "responds", text |-> t] : t \in Texts}

PendingPromise == [state |-> "pending", value |-> NullResult]
Resolved(v) == [state |-> "resolved", value |-> v]
Rejected == [state |-> "rejected", value |-> NullResult]

For(v, base64Image) == IF v.null THEN v ELSE [v EXCEPT !.of = base64Image]

\* the object the catch block returns
Fallback == Recognition(0 - 1, [i \in 1..10 |-> Scale \div 10])

\* (mutant) analyzeDigit without its try/catch
analyzeDigitNoCatch(base64Image, outcome) ==
    IF outcome.kind = "throws" THEN Rejected
    ELSE IF outcome.text = TextEmpty THEN Rejected
    ELSE IF JSONParse(outcome.text).error THEN Rejected
    ELSE Resolved(For(JSONParse(outcome.text).value, base64Image))

\* analyzeDigit(base64Image), given what the remote call does: the promise it
\* returns, once settled
analyzeDigit(base64Image, outcome) ==
    IF outcome.kind = "throws" THEN Resolved(For(Fallback, base64Image))
    ELSE IF outcome.text = TextEmpty THEN Resolved(For(Fallback, base64Image))
    ELSE IF JSONParse(outcome.text).error THEN Resolved(For(Fallback, base64Image))
    ELSE Resolved(For(JSONParse(outcome.text).value, base64Image))

\* (mutant) Promise.race in the place of Promise.all
PromiseRace(task) ==
    IF task.promise.state = "pending" THEN "pending" ELSE task.promise.state

\* Promise.all([analyzeDigit(imageData), minTime]): rejected as soon as one
\* is rejected, resolved once both are resolved
PromiseAll(task) ==
    IF task.promise.state = "rejected" THEN "rejected"
    ELSE IF task.promise.state = "resolved" /\ task.timer = "fired" THEN "resolved"
    ELSE "pending"

\* (mutant) handleAnalysis without setResult(null)
OnStartKeepsResult(gridData) ==
    [isAnalyzing |-> TRUE, result |-> result, inputGrid |-> gridData]

\* setIsAnalyzing(true); setResult(null); setInputGrid(gridData)
OnStart(gridData) ==
    [isAnalyzing |-> TRUE, result |-> NullResult, inputGrid |-> gridData]

\* (mutant) the Analyze button disabled only while the canvas is empty
AnalyzeDisabledWhenEmpty == ~hasContent

\* disabled={!hasContent || isAnalyzing}
AnalyzeDisabled == ~hasContent \/ isAnalyzing

\* probabilities={result?.probabilities || null}
ProbabilitiesProp(res) ==
    IF res.null THEN NullProbabilities ELSE Probabilities(res.probabilities)

\* startDrawing and draw: nothing while isAnalyzing; a stroke only adds to
\* what is drawn
Draw(drawing) ==
    /\ ~isAnalyzing
    /\ drawing = canvas \/ drawing # "blank"
    /\ hasContent' = TRUE
    /\ canvas' = drawing
    /\ UNCHANGED <<engineVars, vizVars, isAnalyzing, result, analyses>>

\* the Clear button: disabled={isAnalyzing}
ClearCanvas ==
    /\ ~isAnalyzing
    /\ hasContent' = FALSE
    /\ canvas' = "blank"
    /\ UNCHANGED <<engineVars, vizVars, isAnalyzing, result, analyses>>

\* a click on Analyze: handleAnalyze, and handleAnalysis up to its await
HandleAnalyze ==
    /\ ~AnalyzeDisabled
    /\ Len(analyses) < MaxInFlight
    /\ \E started \in {OnStart(getInputGrid(canvas))} :
          /\ isAnalyzing' = started.isAnalyzing
          /\ result' = started.result
          /\ Rendered(started.inputGrid, ProbabilitiesProp(started.result))
          /\ analyses' = Append(analyses,
                                [image |-> canvas, grid |-> started.inputGrid,
                                 outcome |-> "pending", text |-> TextEmpty,
                                 promise |-> PendingPromise, timer |-> "pending"])
    /\ UNCHANGED <<engineVars, hasContent, canvas>>

\* the remote call of analysis n ends, and analyzeDigit settles its promise
RemoteSettles(n, outcome) ==
    /\ n \in 1..Len(analyses)
    /\ analyses[n].promise.state = "pending"
    /\ analyses' = [analyses EXCEPT
                        ![n].outcome = outcome.kind,
                        ![n].text = outcome.text,
                        ![n].promise = analyzeDigit(analyses[n].image, outcome)]
    /\ UNCHANGED <<engineVars, vizVars, isAnalyzing, result, hasContent, canvas>>

\* setTimeout(resolve, 1500) of analysis n
TimerFires(n) ==
    /\ n \in 1..Len(analyses)
    /\ analyses[n].timer = "pending"
    /\ analyses' = [analyses EXCEPT ![n].timer = "fired"]
    /\ UNCHANGED <<engineVars, vizVars, isAnalyzing, result, hasContent, canvas>>

Without(seq, n) == SubSeq(seq, 1, n - 1) \o SubSeq(seq, n + 1, Len(seq))

\* handleAnalysis of analysis n after its await: setResult(analysisData) or the
\* catch block, then finally setIsAnalyzing(false)
Resume(n) ==
    /\ n \in 1..Len(analyses)
    /\ PromiseAll(analyses[n]) # "pending"
    /\ \E stored \in {IF PromiseAll(analyses[n]) = "resolved"
                      THEN analyses[n].promise.value ELSE result} :
          /\ result' = stored
          /\ Rendered(inputActivations, ProbabilitiesProp(stored))
    /\ isAnalyzing' = FALSE
    /\ analyses' = Without(analyses, n)
    /\ UNCHANGED <<engineVars, hasContent, canvas>>

NoViz ==
    /\ inputActivations = <<>>
    /\ probabilities = NullProbabilities
    /\ activations = <<>>
    /\ effectPending = FALSE

\* the component as App mounts it: useState(Array(64).fill(0)), result null,
\* useState([]) for activations, and the effect still to run
Mounted ==
    /\ inputActivations = Vector(GridLength, "zeros")
    /\ probabilities = NullProbabilities
    /\ activations = <<>>
    /\ effectPending = TRUE

\* AppContent and DrawingCanvas before anything was drawn: useState(false),
\* useState(null), useState(false), a black canvas, no call of handleAnalysis
NoApp ==
    /\ isAnalyzing = FALSE
    /\ result = NullResult
    /\ hasContent = FALSE
    /\ canvas = "blank"
    /\ analyses = <<>>

NoClient ==
    /\ args = NoArgs
    /\ engine = NoEngine
    /\ twin = NoEngine
    /\ call = NoCall
    /\ held = NoSnapshot
    /\ config = NoConfig

Init == NoClient /\ NoViz /\ NoApp

Next ==
    \/ \E i \in Sizes, h \in HiddenSizes, o \in Sizes : Construct(i, h, o)
    \/ ConstructAgain
    \/ \E x \in TestInputs : ForwardPropagate(x)
    \/ Keep
    \/ GetLayerConfig

Spec == Init /\ [][Next]_vars

\* the client also assigns to the array getLayerConfig gave it
NextClientWrites ==
    \/ \E i \in Sizes, h \in HiddenSizes, o \in Sizes : Construct(i, h, o)
    \/ \E x \in TestInputs : ForwardPropagate(x)
    \/ GetLayerConfig
    \/ \E i \in 1..(MaxSize + 1), v \in WriteValues : WriteConfig(i, v)

SpecClientWrites == Init /\ [][NextClientWrites]_vars

\* the component under any sequence of renders
InitViz == NoClient /\ Mounted /\ NoApp

NextViz ==
    \/ \E grid \in Grids, probs \in Overrides : Render(grid, probs)
    \/ RecomputeEffect

SpecViz == InitViz /\ [][NextViz]_vars

\* the component when the holders of the arrays it was passed assign to them
WrittenGrids == {Vector(len, "zeros") : len \in {GridLength - 1, GridLength}}
WrittenOverrides ==
    {NullProbabilities} \cup
    {Probabilities(Distribution(len, "uniform")) : len \in {OutputLength - 1, OutputLength}}

NextVizWrites ==
    \/ \E grid \in WrittenGrids, probs \in WrittenOverrides : Render(grid, probs)
    \/ RecomputeEffect
    \/ \E v \in {0, Scale} : WriteProbabilities(v)
    \/ \E v \in {0, Scale} : WriteInputActivations(v)

SpecVizWrites == InitViz /\ [][NextVizWrites]_vars

\* the application: the user draws, clears and clicks Analyze
NextApp ==
    \/ \E drawing \in Drawings : Draw(drawing)
    \/ ClearCanvas
    \/ HandleAnalyze
    \/ \E n \in 1..MaxInFlight, outcome \in RemoteOutcomes : RemoteSettles(n, outcome)
    \/ \E n \in 1..MaxInFlight : TimerFires(n)
    \/ \E n \in 1..MaxInFlight : Resume(n)
    \/ RecomputeEffect

SpecApp == InitViz /\ [][NextApp]_vars

\* the effect of a render runs, a timer fires, a settled promise resumes the
\* function awaiting it, and the remote call ends one way or the other
SpecAppLive ==
    /\ SpecApp
    /\ WF_vars(RecomputeEffect)
    /\ WF_vars(\E n \in 1..MaxInFlight : TimerFires(n))
    /\ WF_vars(\E n \in 1..MaxInFlight : Resume(n))
    /\ WF_vars(\E n \in 1..MaxInFlight, outcome \in RemoteOutcomes :
                    RemoteSettles(n, outcome))

\* an engine of topology [4, 2, 3] and the inputs of length 4 a client gives it
ScenarioLevels == {0, Scale \div 4, Scale \div 2, Scale}
ScenarioInputs == [1..4 -> ScenarioLevels]

NextScenario ==
    \/ Construct(4, <<2>>, 3)
    \/ \E x \in ScenarioInputs : ForwardPropagate(x)

SpecScenario == Init /\ [][NextScenario]_vars

-----------------------------------------------------------------------------
(* Claims about the engine, checked under Spec *)

ReturnedCall == call.outcome = "returned"
RightLength(x, net) == Len(x) = net.layerSizes[1]
InUnitInterval(x) == \A i \in 1..Len(x) : 0 <= x[i] /\ x[i] <= Scale
HasShape(snapshot, layerSizes) ==
    /\ Len(snapshot) = Len(layerSizes)
    /\ \A i \in 1..Len(layerSizes) : Len(Deref(snapshot[i])) = layerSizes[i]

\* C1: for every input vector x of length topology[0], forwardPropagate(x)
\* returns topology.length layers, layer i has topology[i] entries, and layer 0
\* has the elements of x.
C1_ShapeInvariant ==
    (call.outcome # "none" /\ RightLength(call.argument, engine))
        => /\ ReturnedCall
           /\ HasShape(call.activations, engine.layerSizes)
           /\ Deref(call.activations[1]) = call.argument

\* C4: forwardPropagate with an input whose length differs from topology[0]
\* fails; it never returns a snapshot.
C4_WrongLengthFails ==
    (call.outcome # "none" /\ ~RightLength(call.argument, engine))
        => call.outcome # "returned"

\* C5: no engine instance exists for a topology with a layer size <= 0 or
\* with fewer than two layers.
C5_InvalidTopologyRejected ==
    IsBuilt(engine)
        => /\ Len(engine.layerSizes) >= 2
           /\ \A i \in 1..Len(engine.layerSizes) : engine.layerSizes[i] > 0

C9_PropagateChangesNothing ==
    [][call'.outcome # "none"
            => (engine' = engine /\ call'.inputs = call'.argument)]_vars

C9_Witness ==
    /\ call.outcome = "TypeError"
    /\ Len(call.argument) > engine.layerSizes[1]
    /\ call.inputs = call.argument
    /\ Len(engine.weights[1]) > 0

-----------------------------------------------------------------------------
(* Claims about the composition in NeuralNetworkViz, checked under SpecViz *)

LastLayer(snapshot) == snapshot[Len(snapshot)]
WellFormedInput == Len(inputActivations) = neuralNetEngine.layerSizes[1]
OutputSize == neuralNetEngine.layerSizes[Len(neuralNetEngine.layerSizes)]
WellFormedOverride == ~probabilities.null /\ Len(probabilities.val) = OutputSize
MalformedOverride == ~probabilities.null /\ Len(probabilities.val) # OutputSize

\* C2: for an input x of the input layer's length and an override o of the
\* output layer's length, the last layer of the composed snapshot is o,
\* element by element, and every earlier layer is the layer of the snapshot
\* computed for x with no override.
C2_OverrideSubstitution ==
    (~effectPending /\ WellFormedInput /\ WellFormedOverride)
        => LET local == ComputeNetworkState(inputActivations, NullProbabilities)
           IN /\ Len(activations) = Len(local)
              /\ Deref(LastLayer(activations)) = probabilities.val
              /\ \A i \in 1..(Len(local) - 1) : Deref(activations[i]) = Deref(local[i])

C2_Witness ==
    /\ ~effectPending /\ WellFormedInput /\ WellFormedOverride
    /\ inputActivations = Vector(GridLength, "ramp")
    /\ probabilities.val = Distribution(OutputLength, "peaked")
    /\ Deref(LastLayer(activations)) = probabilities.val

-----------------------------------------------------------------------------
(* Claims about what holders of shared arrays can do *)

\* C7 (checked under SpecClientWrites): whatever the client does with the
\* value getLayerConfig returned, forwardPropagate returns what an engine
\* built from the same arguments returns: the same outcome, the same shape,
\* the same values.  (Stated for engines built with positive sizes, so that a
\* violation owes nothing to the sizes the constructor should have refused.)
PositiveSizes(a) == \A i \in 1..Len(Topology(a)) : Topology(a)[i] > 0

C7_ConfigIsReadOnly ==
    (call.outcome # "none" /\ PositiveSizes(args))
        => LET untouched == forwardPropagate(
                   SimpleNeuralNet(args.inputSize, args.hiddenSizes, args.outputSize),
                   call.argument)
           IN /\ call.outcome = untouched.outcome
              /\ Values(call.activations) = Values(untouched.activations)

\* C8 (checked under SpecVizWrites): a snapshot that was handed over has, ever
\* after, the elements it had when it was handed over, whatever is done to the
\* input vector or to the override.
C8_SnapshotNeverChanges ==
    \A i \in 1..Len(activations) : Deref(activations[i]) = activations[i].val

-----------------------------------------------------------------------------
(* Claims about the values the engine computes *)

ScenarioCall ==
    /\ ReturnedCall
    /\ engine.layerSizes = <<4, 2, 3>>
    /\ call.argument = <<0, 0, 0, 0>>

\* C11 (as claimed, checked under SpecScenario): for topology [4, 2, 3] and
\* the all-zero input, every hidden-layer activation and every output-layer
\* activation equals sigmoid(bias), the bias being -0.1.
C11_AllSigmoidOfBias ==
    ScenarioCall
        => \A i \in 2..3 :
             \A k \in 1..Len(Deref(call.activations[i])) :
                Deref(call.activations[i])[k] = sigmoid(Bias)

\* C11 (amended): for topology [4, 2, 3] and the all-zero input, the two
\* hidden activations equal sigmoid(bias); output activation k equals
\* sigmoid(bias + sigmoid(bias) * (w[1][0][k] + w[1][1][k])), the hidden
\* activations being the inputs of the output layer, and they are not 0.
C11_HiddenSigmoidOfBias ==
    ScenarioCall
        => LET h == sigmoid(Bias)
           IN /\ Deref(call.activations[2]) = <<h, h>>
              /\ Deref(call.activations[3]) =
                    [k \in 1..3 |->
                        sigmoid(Add(Bias, Add(Mul(h, Weight(1, 0, k - 1, 2)),
                                              Mul(h, Weight(1, 1, k - 1, 2)))))]

C11_Witness ==
    /\ ScenarioCall
    /\ Deref(call.activations[2])[1] = sigmoid(Bias)
    /\ \A k \in 1..3 : Deref(call.activations[3])[k] # sigmoid(Bias)

Abs(a) == IF a >= 0 THEN a ELSE 0 - a

\* C12 (checked under Spec): every weight of transition i is at most
\* 1/sqrt(topology[i]) in absolute value, the value derived from the seed
\* lying in [-1, 1] before the scaling.  (Stated for engines built with
\* positive sizes.)
C12_WeightsBounded ==
    (IsBuilt(engine) /\ PositiveSizes(args))
        => \A i \in 1..Len(engine.weights) :
             \A j \in 1..Len(engine.weights[i]) :
               \A k \in 1..Len(engine.weights[i][j]) :
                  Abs(engine.weights[i][j][k])
                      <= Div(Scale * Scale, Sqrt(engine.layerSizes[i]))

-----------------------------------------------------------------------------
(* Claims about what NeuralNetworkViz displays, checked under SpecViz *)

AllZero(snapshot) ==
    \A i \in 1..Len(snapshot) :
        \A k \in 1..Len(Deref(snapshot[i])) : Deref(snapshot[i])[k] = 0

\* C13: whatever renders came before, once the effect has run the displayed
\* activations are those of the current props: for an input of the input
\* layer's length, the layers propagated from the current input, the last
\* one replaced by the current override when there is one of the output
\* layer's length; nothing of an earlier input or override remains.
C13_DisplayedIsCurrent ==
    (~effectPending /\ WellFormedInput)
        => LET local == forwardPropagate(neuralNetEngine, inputActivations).activations
           IN /\ Len(activations) = Len(local)
              /\ \A i \in 1..(Len(local) - 1) : Deref(activations[i]) = local[i].val
              /\ Deref(LastLayer(activations)) =
                    IF WellFormedOverride THEN probabilities.val
                                          ELSE LastLayer(local).val

C13_Witness ==
    /\ ~effectPending
    /\ inputActivations = Vector(GridLength, "ramp")
    /\ probabilities.null
    /\ Len(activations) = Len(neuralNetEngine.layerSizes)
    /\ \A i \in 1..Len(activations) : activations[i].ref = "fresh"
    /\ Deref(activations[1]) = inputActivations

\* C14: for any input grid and any override, once the effect has run the
\* displayed activations have one vector per layer of the topology, layer i
\* of length topology[i]; when the input length is not 64 every value is 0.
C14_DisplayedShape ==
    ~effectPending
        => /\ HasShape(activations, neuralNetEngine.layerSizes)
           /\ Len(inputActivations) # 64 => AllZero(activations)

C14_Witness ==
    /\ ~effectPending
    /\ Len(inputActivations) = GridLength + 1
    /\ WellFormedOverride
    /\ HasShape(activations, <<64, 16, 12, 10>>)
    /\ AllZero(activations)

-----------------------------------------------------------------------------
(* Claims about the analysis of a drawing, checked under SpecApp *)

IsFallback(v) ==
    /\ ~v.null
    /\ v.prediction = 0 - 1
    /\ Len(v.probabilities) = 10
    /\ \A i \in 1..10 : v.probabilities[i] = Scale \div 10

RemoteFailed(task) ==
    \/ task.outcome = "throws"
    \/ task.outcome = "responds" /\ task.text \in {TextEmpty, TextProse, TextCut}

\* C15: the promise of analyzeDigit is never rejected; when the remote call
\* threw, returned an empty text, or returned a text that is not JSON, it is
\* resolved with the fallback: prediction -1 and ten probabilities of 0.1.
C15_AnalyzeDigitNeverRejects ==
    \A n \in 1..Len(analyses) :
        /\ analyses[n].promise.state # "rejected"
        /\ RemoteFailed(analyses[n])
              => /\ analyses[n].promise.state = "resolved"
                 /\ IsFallback(analyses[n].promise.value)

C15_Witness ==
    \E n \in 1..Len(analyses) :
        /\ analyses[n].outcome = "responds"
        /\ analyses[n].text = TextCut
        /\ analyses[n].promise.state = "resolved"
        /\ IsFallback(analyses[n].promise.value)

C17_AnalysisEnds ==
    /\ (Len(analyses) > 0) ~> (Len(analyses) = 0 /\ ~isAnalyzing)
    /\ [][Len(analyses') < Len(analyses)
            => /\ ~isAnalyzing'
               /\ \E n \in 1..Len(analyses) :
                     /\ analyses' = Without(analyses, n)
                     /\ analyses[n].promise.state = "resolved"
                     /\ analyses[n].timer = "fired"
                     /\ result' = analyses[n].promise.value]_vars
    /\ [][result' # result
            => (Len(analyses') < Len(analyses) \/ Len(analyses') > Len(analyses))]_vars

C17_Witness ==
    /\ ~isAnalyzing
    /\ Len(analyses) = 0
    /\ IsFallback(result)
    /\ ~effectPending
    /\ Deref(LastLayer(activations)) = result.probabilities

\* C18: at most one analysis is in flight, and exactly while isAnalyzing;
\* while isAnalyzing no analysis starts and the canvas stays as it is; a
\* stored result is the result for the image whose grid is the input grid.
C18_OneAnalysisAtATime ==
    /\ [](/\ Len(analyses) <= 1
          /\ isAnalyzing <=> Len(analyses) = 1
          /\ ~result.null => getInputGrid(result.of) = inputActivations)
    /\ [][isAnalyzing => /\ canvas' = canvas
                         /\ hasContent' = hasContent
                         /\ Len(analyses') <= Len(analyses)]_vars

C18_Witness ==
    /\ isAnalyzing
    /\ hasContent
    /\ Len(analyses) = 1
    /\ analyses[1].timer = "fired"
    /\ analyses[1].promise.state = "pending"
    /\ canvas = analyses[1].image

====
